---- MODULE Spec2Model ----
(***************************************************************************)
(* ExpresToons: the App component's state (src/App.tsx) and the Gemini     *)
(* service it calls (src/unnamed/part_000, imported by App.tsx as          *)
(* ./services/geminiService).                                              *)
(*                                                                         *)
(* Strings are sequences of tokens: JavaScript's string concatenation and  *)
(* template literals are \o, the empty string is <<>>, and "s contains t"  *)
(* is "t occurs in s as a contiguous run of tokens".  The fixed texts of   *)
(* the source are cut into tokens at the places where a text typed by the  *)
(* user can meet them (the period after the description, the wording that  *)
(* tells the two colour clauses apart).                                    *)
(*                                                                         *)
(* A value that may be null is a sequence of at most one element: <<>> is  *)
(* null/undefined, <<v>> is v.  Files are named by identifiers.            *)
(***************************************************************************)
EXTENDS Naturals, Sequences, FiniteSets

VARIABLES
    activeTab,              \* App.tsx:59
    cartoonPrompt,          \* App.tsx:62
    styleType,              \* App.tsx:63
    magazineStyle,          \* App.tsx:64
    cartoonistStyle,        \* App.tsx:65
    customStyle,            \* App.tsx:66
    signature,              \* App.tsx:67
    colorOption,            \* App.tsx:68
    generatedCartoon,       \* App.tsx:69
    isGeneratingCartoon,    \* App.tsx:70
    cartoonHistory,         \* App.tsx:71
    characterImage,         \* App.tsx:72
    characterImagePreview,  \* App.tsx:73
    originalImage,          \* App.tsx:76
    editPrompt,             \* App.tsx:78
    editedImage,            \* App.tsx:79
    isEditingImage,         \* App.tsx:80
    editHistory,            \* App.tsx:81
    editSources,            \* the uploaded image each edit result was produced from
    error,                  \* App.tsx:83
    calls,                  \* the handler invocations suspended at an await
    previewReads,           \* FileReaders of handleCharacterImageUpload not yet loaded
    pendingShares,          \* handleShare invocations suspended at an await
    apiRequests,            \* how many times ai.models.generateContent was called
    started,                \* how many generate/edit actions passed validation
    inputs,                 \* how many form events have happened
    lastEvent               \* the event that led to the current state

vars == <<activeTab, cartoonPrompt, styleType, magazineStyle, cartoonistStyle,
          customStyle, signature, colorOption, generatedCartoon,
          isGeneratingCartoon, cartoonHistory, characterImage,
          characterImagePreview, originalImage, editPrompt, editedImage,
          isEditingImage, editHistory, editSources, error, calls, previewReads,
          pendingShares, apiRequests, started, inputs, lastEvent>>

formVars == <<cartoonPrompt, styleType, magazineStyle, cartoonistStyle,
              customStyle, signature, colorOption, characterImage,
              characterImagePreview, originalImage, editPrompt>>

(***************************************************************************)
(* Bounds of the model.                                                    *)
(***************************************************************************)
\* generate/edit actions that may pass validation in one run
MaxRequests == 2
\* form events (typing, selecting, uploading, ...) in one run
MaxInputs == 2

(***************************************************************************)
(* Strings.                                                                *)
(***************************************************************************)
RECURSIVE Contains(_, _)
\* t occurs in s (JavaScript's s.includes(t))
Contains(s, t) ==
    IF Len(t) > Len(s) THEN FALSE
    ELSE IF SubSeq(s, 1, Len(t)) = t THEN TRUE
    ELSE IF s = <<>> THEN FALSE
    ELSE Contains(Tail(s), t)

Range(s) == {s[i] : i \in 1..Len(s)}

\* index of the first c in s, Len(s) + 1 when there is none
RECURSIVE IndexOf(_, _)
IndexOf(s, c) ==
    IF s = <<>> THEN 1
    ELSE IF Head(s) = c THEN 1
    ELSE 1 + IndexOf(Tail(s), c)

\* s.split(',')[1]: what lies between the first comma and the second (or
\* the end); <<>> stands for undefined when s holds no comma
SplitComma1(s) ==
    LET i == IndexOf(s, ",")
        rest == SubSeq(s, i + 1, Len(s))
        j == IndexOf(rest, ",")
    IN  SubSeq(rest, 1, j - 1)

\* `data:${mimeType};base64,${data}`
DataUrl(mimeType, data) == <<"data:">> \o mimeType \o <<";base64", ",">> \o data

(***************************************************************************)
(* Parts of a request or a response: {text} or {inlineData}.               *)
(***************************************************************************)
TextPart(t) == [text |-> <<t>>, inlineData |-> <<>>]
InlinePart(mimeType, data) ==
    [text |-> <<>>, inlineData |-> <<[data |-> data, mimeType |-> mimeType]>>]
IsTextPart(p) == p.text # <<>>
\* JavaScript's truthiness of part.inlineData
HasInlineData(p) == p.inlineData # <<>>

(***************************************************************************)
(* Files the user can pick.                                                *)
(***************************************************************************)
NoFile == "null"
CharacterFiles == {"hero.png"}
OriginalFiles == {"photo1.jpg", "photo2.jpg"}
FileType(f) == IF f = "hero.png" THEN <<"image/png">> ELSE <<"image/jpeg">>
FileData(f) ==
    IF f = "hero.png" THEN <<"aGVybw==">>
    ELSE IF f = "photo1.jpg" THEN <<"cGhvdG8x">>
    ELSE <<"cGhvdG8y">>

\* FileReader.readAsDataURL's result at loadend: the data URL, or null when
\* the read failed
ReadResults(f) == {<<DataUrl(FileType(f), FileData(f))>>, <<>>}

\* fileToGenerativePart, given what the FileReader produced
fileToGenerativePart(file, result) ==
    InlinePart(FileType(file),
               IF result # <<>> THEN SplitComma1(result[1]) ELSE <<>>)

(***************************************************************************)
(* getCartoonPrompt.                                                       *)
(***************************************************************************)
ColorHead == " The cartoon should be in"
BlackAndWhiteWording == " black and white"
FullColorWording == " full color"
BlackAndWhiteClause == <<ColorHead, BlackAndWhiteWording, ".">>
FullColorClause == <<ColorHead, FullColorWording, ".">>
CharacterClause == <<" Feature the character from the provided image in the scene", ".">>
ClosingClause ==
    <<" The cartoon should be humorous and thought-provoking, capturing the essence of the specified style", ".">>
SignatureHead == " Subtly place the signature '"
SignatureTail == "' in one of the bottom corners of the image"
StyleHead == "in the distinct artistic style of "

\* a signature clause that leaves the signature's text out
signatureTextOfNoName(sig) ==
    IF sig # <<>> THEN <<SignatureHead, SignatureTail, ".">> ELSE <<>>

signatureTextOf(sig) ==
    IF sig # <<>> THEN <<SignatureHead>> \o sig \o <<SignatureTail, ".">> ELSE <<>>

\* a style clause that always uses the magazine phrasing
stylePromptOfAlwaysMagazine(type, styleName) ==
    <<StyleHead>> \o styleName \o <<" magazine">>

stylePromptOf(type, styleName) ==
    IF type = "magazine"
    THEN <<StyleHead>> \o styleName \o <<" magazine">>
    ELSE <<StyleHead, "cartoonist ">> \o styleName

\* a character instruction that is never appended
characterInstructionNever(hasCharacterImage) == <<>>

characterInstructionOf(hasCharacterImage) ==
    IF hasCharacterImage THEN CharacterClause ELSE <<>>

\* a colour instruction that ignores the option
colorInstructionAlwaysColor(option) == FullColorClause

colorInstructionOf(option) ==
    IF option = "black_and_white" THEN BlackAndWhiteClause ELSE FullColorClause

getCartoonPrompt(description, type, styleName, sig, hasCharacterImage, option) ==
    <<"Generate a single-panel cartoon ">> \o stylePromptOf(type, styleName)
        \o <<".", " The scene is: ">> \o description \o <<".">>
        \o characterInstructionOf(hasCharacterImage)
        \o colorInstructionOf(option)
        \o ClosingClause
        \o signatureTextOf(sig)

(***************************************************************************)
(* The part lists of the two requests.                                     *)
(***************************************************************************)
\* the text pushed before the image
generateCartoonPartsTextFirst(imagePart, prompt) ==
    <<TextPart(prompt)>> \o (IF imagePart # <<>> THEN <<imagePart[1]>> ELSE <<>>)

\* generateCartoon: imagePart is <<>> when there is no character image
generateCartoonParts(imagePart, prompt) ==
    (IF imagePart # <<>> THEN <<imagePart[1]>> ELSE <<>>) \o <<TextPart(prompt)>>

\* editImage
editImageParts(imagePart, prompt) == <<imagePart, TextPart(prompt)>>

(***************************************************************************)
(* What ai.models.generateContent can do when it settles.                  *)
(***************************************************************************)
TextOnly == TextPart(<<"Here is your image">>)
PngPart == InlinePart(<<"image/png">>, <<"QUJD">>)
JpegPart == InlinePart(<<"image/jpeg">>, <<"REVG">>)

\* the part lists of the first candidate that the model tries: none, text
\* only, an image alone, an image after text, two images, two images after
\* text
ResponseLists ==
    { <<>>, <<TextOnly>>, <<PngPart>>, <<TextOnly, PngPart>>,
      <<JpegPart, PngPart>>, <<TextOnly, PngPart, JpegPart>> }

\* a response whose first candidate holds `parts`; a response without
\* candidates (reading candidates[0].content throws a TypeError); a promise
\* rejected with an Error; a promise rejected with something else
ApiOutcomes ==
    { [type |-> "response", parts |-> ps, message |-> ""] : ps \in ResponseLists }
    \cup { [type |-> "noCandidate", parts |-> <<>>,
            message |-> "Cannot read properties of undefined (reading 'content')"],
           [type |-> "rejectedError", parts |-> <<>>, message |-> "Failed to fetch"],
           [type |-> "rejectedOther", parts |-> <<>>, message |-> ""] }

NoOutcome == [type |-> "none", parts |-> <<>>, message |-> ""]

RECURSIVE scanPartsLast(_)
\* a scan that keeps going and returns the last match
scanPartsLast(parts) ==
    IF parts = <<>> THEN <<>>
    ELSE IF scanPartsLast(Tail(parts)) # <<>> THEN scanPartsLast(Tail(parts))
    ELSE IF HasInlineData(Head(parts))
         THEN <<DataUrl(Head(parts).inlineData[1].mimeType, Head(parts).inlineData[1].data)>>
         ELSE <<>>

RECURSIVE scanParts(_)
\* for (const part of parts) if (part.inlineData) return `data:...`;
\* <<>> when the loop ends without returning
scanParts(parts) ==
    IF parts = <<>> THEN <<>>
    ELSE IF HasInlineData(Head(parts))
         THEN <<DataUrl(Head(parts).inlineData[1].mimeType, Head(parts).inlineData[1].data)>>
         ELSE scanParts(Tail(parts))

Resolved(url) == [ok |-> TRUE, value |-> url, isError |-> FALSE, message |-> ""]
Rejected(isError, message) ==
    [ok |-> FALSE, value |-> <<>>, isError |-> isError, message |-> message]

\* how a service call settles: the scan's value, `noImage` thrown after the
\* loop, or whatever the API call threw
settle(outcome, noImage) ==
    IF outcome.type = "response"
    THEN IF scanParts(outcome.parts) # <<>>
         THEN Resolved(scanParts(outcome.parts)[1])
         ELSE Rejected(TRUE, noImage)
    ELSE Rejected(outcome.type # "rejectedOther", outcome.message)

\* generateCartoon, from the await of generateContent on
generateCartoonResult(outcome) == settle(outcome, "No image generated.")

\* an edit that throws the generation's message
editImageResultSameMessage(outcome) == settle(outcome, "No image generated.")

\* editImage, from the await of generateContent on
editImageResult(outcome) == settle(outcome, "No image generated from edit.")

\* catch (e): e instanceof Error ? e.message : 'An unknown error occurred.'
caughtMessage(result) ==
    IF result.isError THEN result.message ELSE "An unknown error occurred."

(***************************************************************************)
(* The form: what the user can type or select.                             *)
(***************************************************************************)
NoError == "null"
Other == <<"Other...">>
\* the first entry of each list (the initial selection); the others differ
\* from it only in the name
magazines == {<<"The New Yorker">>}
cartoonists == {<<"Charles Addams">>}
StyleTypes == {"magazine", "cartoonist"}
ColorOptions == {"color", "black_and_white"}
Tabs == {"cartoon", "edit"}

DefaultDescription == <<"A cat trying to use a laptop">>
\* a description that ends in the wording of the black-and-white clause
InjectedDescription == <<"A zebra crossing", ".", ColorHead, BlackAndWhiteWording>>
Descriptions == {<<>>, DefaultDescription, InjectedDescription}
\* descriptions that end in the wording of the signature clause and of the
\* character clause
SignatureInjectedDescription ==
    <<"A dog at a gallery", ".", SignatureHead, "Banksy", SignatureTail>>
CharacterInjectedDescription ==
    <<"A dog at a gallery", ".", Head(CharacterClause)>>
PromptDescriptions ==
    Descriptions \cup {SignatureInjectedDescription, CharacterInjectedDescription}
CustomStyles == {<<>>, <<"Ukiyo-e">>}
Signatures == {<<>>, <<"AI Artist">>}
DefaultEditPrompt == <<"Add a retro, 1980s style filter">>
EditPrompts == {<<>>, DefaultEditPrompt}

ValidationGenerate == "Please provide a description and a style."
ValidationEdit == "Please upload an image and provide an edit instruction."
ShareUnsupported == "Sharing files is not supported on your browser."
ShareFailed == "Could not share the image. Please try downloading it instead."

Event(kind, outcome) == [kind |-> kind, outcome |-> outcome]

Init ==
    /\ activeTab = "cartoon"
    /\ cartoonPrompt = DefaultDescription
    /\ styleType = "magazine"
    /\ magazineStyle = <<"The New Yorker">>
    /\ cartoonistStyle = <<"Charles Addams">>
    /\ customStyle = <<>>
    /\ signature = <<"AI Artist">>
    /\ colorOption = "color"
    /\ generatedCartoon = <<>>
    /\ isGeneratingCartoon = FALSE
    /\ cartoonHistory = <<>>
    /\ characterImage = NoFile
    /\ characterImagePreview = NoFile
    /\ originalImage = NoFile
    /\ editPrompt = DefaultEditPrompt
    /\ editedImage = <<>>
    /\ isEditingImage = FALSE
    /\ editHistory = <<>>
    /\ editSources = [shown |-> NoFile, history |-> <<>>]
    /\ error = NoError
    /\ calls = {}
    /\ previewReads = {}
    /\ pendingShares = 0
    /\ apiRequests = 0
    /\ started = 0
    /\ inputs = 0
    /\ lastEvent = Event("init", NoOutcome)

(***************************************************************************)
(* Form events.  Each counts against MaxInputs and leaves lastEvent at     *)
(* "input": lastEvent tells apart only the steps of the two flows (the     *)
(* clicks on Generate Cartoon and Apply Edit, the file reads, the          *)
(* settlements of generateContent, the latter with what the API did).      *)
(***************************************************************************)
flowVars == <<generatedCartoon, isGeneratingCartoon, cartoonHistory, editedImage,
              isEditingImage, editHistory, editSources, error, calls, pendingShares,
              apiRequests, started>>

FormEvent ==
    /\ inputs < MaxInputs
    /\ inputs' = inputs + 1
    /\ lastEvent' = Event("input", NoOutcome)

\* renderCartoonGenerator's isCustomStyle, handleGenerateCartoon's isCustom
isCustomStyle ==
    \/ (styleType = "magazine" /\ magazineStyle = Other)
    \/ (styleType = "cartoonist" /\ cartoonistStyle = Other)

\* the two tab buttons; switching tabs changes nothing else, and is not
\* counted against MaxInputs
SetActiveTab(tab) ==
    /\ tab # activeTab
    /\ activeTab' = tab
    /\ lastEvent' = Event("input", NoOutcome)
    /\ UNCHANGED <<formVars, flowVars, previewReads, inputs>>

SetCartoonPrompt(text) ==
    /\ activeTab = "cartoon"
    /\ text # cartoonPrompt
    /\ FormEvent
    /\ cartoonPrompt' = text
    /\ UNCHANGED <<activeTab, styleType, magazineStyle, cartoonistStyle, customStyle,
                   signature, colorOption, characterImage, characterImagePreview,
                   originalImage, editPrompt, flowVars, previewReads>>

handleStyleTypeChange(type) ==
    /\ activeTab = "cartoon"
    /\ type # styleType
    /\ FormEvent
    /\ styleType' = type
    /\ customStyle' = <<>>
    /\ UNCHANGED <<activeTab, cartoonPrompt, magazineStyle, cartoonistStyle,
                   signature, colorOption, characterImage, characterImagePreview,
                   originalImage, editPrompt, flowVars, previewReads>>

handleMagazineChange(value) ==
    /\ activeTab = "cartoon"
    /\ styleType = "magazine"
    /\ value # magazineStyle
    /\ FormEvent
    /\ magazineStyle' = value
    /\ customStyle' = IF value # Other THEN <<>> ELSE customStyle
    /\ UNCHANGED <<activeTab, cartoonPrompt, styleType, cartoonistStyle,
                   signature, colorOption, characterImage, characterImagePreview,
                   originalImage, editPrompt, flowVars, previewReads>>

handleCartoonistChange(value) ==
    /\ activeTab = "cartoon"
    /\ styleType = "cartoonist"
    /\ value # cartoonistStyle
    /\ FormEvent
    /\ cartoonistStyle' = value
    /\ customStyle' = IF value # Other THEN <<>> ELSE customStyle
    /\ UNCHANGED <<activeTab, cartoonPrompt, styleType, magazineStyle,
                   signature, colorOption, characterImage, characterImagePreview,
                   originalImage, editPrompt, flowVars, previewReads>>

SetCustomStyle(text) ==
    /\ activeTab = "cartoon"
    /\ isCustomStyle
    /\ text # customStyle
    /\ FormEvent
    /\ customStyle' = text
    /\ UNCHANGED <<activeTab, cartoonPrompt, styleType, magazineStyle, cartoonistStyle,
                   signature, colorOption, characterImage, characterImagePreview,
                   originalImage, editPrompt, flowVars, previewReads>>

SetSignature(text) ==
    /\ activeTab = "cartoon"
    /\ text # signature
    /\ FormEvent
    /\ signature' = text
    /\ UNCHANGED <<activeTab, cartoonPrompt, styleType, magazineStyle, cartoonistStyle,
                   customStyle, colorOption, characterImage, characterImagePreview,
                   originalImage, editPrompt, flowVars, previewReads>>

SetColorOption(option) ==
    /\ activeTab = "cartoon"
    /\ option # colorOption
    /\ FormEvent
    /\ colorOption' = option
    /\ UNCHANGED <<activeTab, cartoonPrompt, styleType, magazineStyle, cartoonistStyle,
                   customStyle, signature, characterImage, characterImagePreview,
                   originalImage, editPrompt, flowVars, previewReads>>

handleCharacterImageUpload(file) ==
    /\ activeTab = "cartoon"
    /\ FormEvent
    /\ characterImage' = file
    /\ previewReads' = previewReads \cup {file}
    /\ UNCHANGED <<activeTab, cartoonPrompt, styleType, magazineStyle, cartoonistStyle,
                   customStyle, signature, colorOption, characterImagePreview,
                   originalImage, editPrompt, flowVars>>

\* reader.onloadend of handleCharacterImageUpload
CharacterPreviewLoaded(file) ==
    /\ file \in previewReads
    /\ previewReads' = previewReads \ {file}
    /\ characterImagePreview' = file
    /\ lastEvent' = Event("input", NoOutcome)
    /\ UNCHANGED <<activeTab, cartoonPrompt, styleType, magazineStyle, cartoonistStyle,
                   customStyle, signature, colorOption, characterImage,
                   originalImage, editPrompt, flowVars, inputs>>

handleRemoveCharacterImage ==
    /\ activeTab = "cartoon"
    /\ characterImagePreview # NoFile
    /\ FormEvent
    /\ characterImage' = NoFile
    /\ characterImagePreview' = NoFile
    /\ UNCHANGED <<activeTab, cartoonPrompt, styleType, magazineStyle, cartoonistStyle,
                   customStyle, signature, colorOption,
                   originalImage, editPrompt, flowVars, previewReads>>

\* originalImagePreview, which the handler's FileReader sets later, is only
\* displayed: no handler and no condition of the rendering reads it
handleImageUpload(file) ==
    /\ activeTab = "edit"
    /\ FormEvent
    /\ originalImage' = file
    /\ editedImage' = <<>>
    /\ editHistory' = <<>>
    /\ editSources' = [shown |-> NoFile, history |-> <<>>]
    /\ UNCHANGED <<activeTab, cartoonPrompt, styleType, magazineStyle, cartoonistStyle,
                   customStyle, signature, colorOption, characterImage,
                   characterImagePreview, editPrompt, previewReads,
                   generatedCartoon, isGeneratingCartoon, cartoonHistory,
                   isEditingImage, error, calls, pendingShares, apiRequests,
                   started>>

SetEditPrompt(text) ==
    /\ activeTab = "edit"
    /\ originalImage # NoFile
    /\ text # editPrompt
    /\ FormEvent
    /\ editPrompt' = text
    /\ UNCHANGED <<activeTab, cartoonPrompt, styleType, magazineStyle, cartoonistStyle,
                   customStyle, signature, colorOption, characterImage,
                   characterImagePreview, originalImage, flowVars, previewReads>>

\* onClick of a thumbnail of "Your Creations"
SelectCartoon(i) ==
    /\ activeTab = "cartoon"
    /\ i \in 1..Len(cartoonHistory)
    /\ cartoonHistory[i] # generatedCartoon
    /\ FormEvent
    /\ generatedCartoon' = cartoonHistory[i]
    /\ UNCHANGED <<activeTab, formVars, previewReads, isGeneratingCartoon,
                   cartoonHistory, editedImage, isEditingImage, editHistory, editSources, error,
                   calls, pendingShares, apiRequests, started>>

\* onClick of a thumbnail of "Edit History"
SelectEdit(i) ==
    /\ activeTab = "edit"
    /\ i \in 1..Len(editHistory)
    /\ editHistory[i] # editedImage
    /\ FormEvent
    /\ editedImage' = editHistory[i]
    /\ editSources' = [editSources EXCEPT !.shown = editSources.history[i]]
    /\ UNCHANGED <<activeTab, formVars, previewReads, generatedCartoon,
                   isGeneratingCartoon, cartoonHistory, isEditingImage, editHistory,
                   error, calls, pendingShares, apiRequests, started>>

\* the Share button of either tab: handleShare runs up to its first await
handleShare ==
    /\ \/ (activeTab = "cartoon" /\ generatedCartoon # <<>> /\ ~isGeneratingCartoon)
       \/ (activeTab = "edit" /\ editedImage # <<>> /\ ~isEditingImage)
    /\ FormEvent
    /\ pendingShares' = pendingShares + 1
    /\ UNCHANGED <<activeTab, formVars, previewReads, generatedCartoon,
                   isGeneratingCartoon, cartoonHistory, editedImage, isEditingImage,
                   editHistory, editSources, error, calls, apiRequests, started>>

ShareOutcomes == {"shared", "unsupported", "aborted", "failed"}

\* handleShare from its awaits on: the share went through, canShare said no,
\* the user closed the share sheet (AbortError), or something else threw
ShareSettled(outcome) ==
    /\ pendingShares > 0
    /\ pendingShares' = pendingShares - 1
    /\ error' = IF outcome = "unsupported" THEN ShareUnsupported
                ELSE IF outcome = "failed" THEN ShareFailed
                ELSE error
    /\ lastEvent' = Event("input", NoOutcome)
    /\ UNCHANGED <<activeTab, formVars, previewReads, generatedCartoon,
                   isGeneratingCartoon, cartoonHistory, editedImage, isEditingImage,
                   editHistory, editSources, calls, apiRequests, started, inputs>>

(***************************************************************************)
(* The two flows.  A call is a handler invocation suspended at an await:   *)
(* phase "reading" waits for fileToGenerativePart, phase "calling" for     *)
(* ai.models.generateContent.  It keeps what its closure captured (the     *)
(* file, the prompt), once it is "calling" the part list it handed to      *)
(* generateContent and, in `before`, what the flow displayed and its       *)
(* history when the action was triggered.                                  *)
(***************************************************************************)
Call(id, flow, phase, image, prompt, parts, before) ==
    [id |-> id, flow |-> flow, phase |-> phase, image |-> image,
     prompt |-> prompt, parts |-> parts, before |-> before]

\* a button that is never disabled
generateButtonAlwaysEnabled == TRUE

\* disabled={isGeneratingCartoon}
generateButtonEnabled == ~isGeneratingCartoon

\* disabled={isEditingImage}
editButtonEnabled == ~isEditingImage

\* handleGenerateCartoon's styleName
resolvedStyleName ==
    IF isCustomStyle THEN customStyle
    ELSE IF styleType = "magazine" THEN magazineStyle ELSE cartoonistStyle

\* a validation that forgets the style
generateInputInvalidNoStyle(description, styleName) ==
    description = <<>>

\* !cartoonPrompt || !styleName
generateInputInvalid(description, styleName) ==
    description = <<>> \/ styleName = <<>>

\* a validation that forgets the instruction
editInputInvalidNoPrompt(image, prompt) ==
    image = NoFile

\* !originalImage || !editPrompt
editInputInvalid(image, prompt) ==
    image = NoFile \/ prompt = <<>>

\* handleGenerateCartoon up to its first await, generateCartoon included
handleGenerateCartoon ==
    LET styleName == resolvedStyleName
        prompt == getCartoonPrompt(cartoonPrompt, styleType, styleName, signature,
                                   characterImage # NoFile, colorOption)
        before == [result |-> generatedCartoon, history |-> cartoonHistory]
    IN  IF generateInputInvalid(cartoonPrompt, styleName)
        THEN /\ error' = ValidationGenerate
             /\ UNCHANGED <<generatedCartoon, isGeneratingCartoon, calls,
                            apiRequests, started>>
        ELSE /\ started < MaxRequests
             /\ started' = started + 1
             /\ error' = NoError
             /\ isGeneratingCartoon' = TRUE
             /\ generatedCartoon' = <<>>
             /\ IF characterImage # NoFile
                THEN /\ calls' = calls \cup {Call(started + 1, "generate", "reading",
                                                  characterImage, prompt, <<>>, before)}
                     /\ UNCHANGED apiRequests
                ELSE /\ calls' = calls \cup {Call(started + 1, "generate", "calling", NoFile, prompt,
                                                  generateCartoonParts(<<>>, prompt), before)}
                     /\ apiRequests' = apiRequests + 1

\* the Generate Cartoon button
GenerateClick ==
    /\ activeTab = "cartoon"
    /\ generateButtonEnabled
    /\ handleGenerateCartoon
    /\ lastEvent' = Event("generateClick", NoOutcome)
    /\ UNCHANGED <<activeTab, formVars, previewReads, cartoonHistory, editedImage,
                   isEditingImage, editHistory, editSources, pendingShares, inputs>>

\* generateCartoon from the await of fileToGenerativePart to the await of
\* generateContent
GenerateFileRead(c, result) ==
    /\ c \in calls /\ c.flow = "generate" /\ c.phase = "reading"
    /\ calls' = (calls \ {c}) \cup
            {[c EXCEPT !.phase = "calling",
                       !.parts = generateCartoonParts(
                                     <<fileToGenerativePart(c.image, result)>>, c.prompt)]}
    /\ apiRequests' = apiRequests + 1
    /\ lastEvent' = Event("generateFileRead", NoOutcome)
    /\ UNCHANGED <<activeTab, formVars, previewReads, generatedCartoon,
                   isGeneratingCartoon, cartoonHistory, editedImage, isEditingImage,
                   editHistory, editSources, error, pendingShares, started, inputs>>

\* a catch that also drops the history
generateCompletesDropsHistory(c, result) ==
    /\ IF result.ok
       THEN /\ generatedCartoon' = result.value
            /\ cartoonHistory' = <<result.value>> \o cartoonHistory
            /\ UNCHANGED error
       ELSE /\ error' = caughtMessage(result)
            /\ cartoonHistory' = <<>>
            /\ UNCHANGED generatedCartoon
    /\ isGeneratingCartoon' = FALSE
    /\ calls' = calls \ {c}
    /\ UNCHANGED apiRequests

\* the flag reset at the end of the try instead of in a finally
generateCompletesNoFinally(c, result) ==
    /\ IF result.ok
       THEN /\ generatedCartoon' = result.value
            /\ cartoonHistory' = <<result.value>> \o cartoonHistory
            /\ isGeneratingCartoon' = FALSE
            /\ UNCHANGED error
       ELSE /\ error' = caughtMessage(result)
            /\ UNCHANGED <<generatedCartoon, cartoonHistory, isGeneratingCartoon>>
    /\ calls' = calls \ {c}
    /\ UNCHANGED apiRequests

\* a catch that sends the request once more
generateCompletesRetries(c, result) ==
    /\ IF result.ok
       THEN /\ generatedCartoon' = result.value
            /\ cartoonHistory' = <<result.value>> \o cartoonHistory
            /\ isGeneratingCartoon' = FALSE
            /\ calls' = calls \ {c}
            /\ UNCHANGED <<error, apiRequests>>
       ELSE /\ error' = caughtMessage(result)
            /\ apiRequests' = apiRequests + 1
            /\ UNCHANGED <<generatedCartoon, cartoonHistory, isGeneratingCartoon, calls>>

\* a success that puts the new cartoon at the end of the history
generateCompletesAppendsLast(c, result) ==
    /\ IF result.ok
       THEN /\ generatedCartoon' = result.value
            /\ cartoonHistory' = cartoonHistory \o <<result.value>>
            /\ UNCHANGED error
       ELSE /\ error' = caughtMessage(result)
            /\ UNCHANGED <<generatedCartoon, cartoonHistory>>
    /\ isGeneratingCartoon' = FALSE
    /\ calls' = calls \ {c}
    /\ UNCHANGED apiRequests

\* handleGenerateCartoon after its await: the try's two statements, or the
\* catch, and then the finally
generateCompletes(c, result) ==
    /\ IF result.ok
       THEN /\ generatedCartoon' = result.value
            /\ cartoonHistory' = <<result.value>> \o cartoonHistory
            /\ UNCHANGED error
       ELSE /\ error' = caughtMessage(result)
            /\ UNCHANGED <<generatedCartoon, cartoonHistory>>
    /\ isGeneratingCartoon' = FALSE
    /\ calls' = calls \ {c}
    /\ UNCHANGED apiRequests

\* generateContent settles for a generation
GenerateSettled(c, outcome) ==
    /\ c \in calls /\ c.flow = "generate" /\ c.phase = "calling"
    /\ generateCompletes(c, generateCartoonResult(outcome))
    /\ lastEvent' = Event("generateSettled", outcome)
    /\ UNCHANGED <<activeTab, formVars, previewReads, editedImage, isEditingImage,
                   editHistory, editSources, pendingShares, started, inputs>>

\* handleEditImage up to its first await (editImage's fileToGenerativePart)
handleEditImage ==
    LET before == [result |-> editedImage, history |-> editHistory]
    IN  IF editInputInvalid(originalImage, editPrompt)
        THEN /\ error' = ValidationEdit
             /\ UNCHANGED <<editedImage, editSources, isEditingImage, calls, started>>
        ELSE /\ started < MaxRequests
             /\ started' = started + 1
             /\ error' = NoError
             /\ isEditingImage' = TRUE
             /\ editedImage' = <<>>
             /\ editSources' = [editSources EXCEPT !.shown = NoFile]
             /\ calls' = calls \cup {Call(started + 1, "edit", "reading",
                                          originalImage, editPrompt, <<>>, before)}

\* the Apply Edit button, rendered once an image is uploaded
EditClick ==
    /\ activeTab = "edit"
    /\ originalImage # NoFile
    /\ editButtonEnabled
    /\ handleEditImage
    /\ lastEvent' = Event("editClick", NoOutcome)
    /\ UNCHANGED <<activeTab, formVars, previewReads, generatedCartoon,
                   isGeneratingCartoon, cartoonHistory, editHistory, pendingShares,
                   apiRequests, inputs>>

\* editImage from the await of fileToGenerativePart to the await of
\* generateContent
EditFileRead(c, result) ==
    /\ c \in calls /\ c.flow = "edit" /\ c.phase = "reading"
    /\ calls' = (calls \ {c}) \cup
            {[c EXCEPT !.phase = "calling",
                       !.parts = editImageParts(
                                     fileToGenerativePart(c.image, result), c.prompt)]}
    /\ apiRequests' = apiRequests + 1
    /\ lastEvent' = Event("editFileRead", NoOutcome)
    /\ UNCHANGED <<activeTab, formVars, previewReads, generatedCartoon,
                   isGeneratingCartoon, cartoonHistory, editedImage, isEditingImage,
                   editHistory, editSources, error, pendingShares, started, inputs>>

\* handleEditImage after its await
editCompletes(c, result) ==
    /\ IF result.ok
       THEN /\ editedImage' = result.value
            /\ editHistory' = <<result.value>> \o editHistory
            /\ editSources' = [shown |-> c.image,
                                history |-> <<c.image>> \o editSources.history]
            /\ UNCHANGED error
       ELSE /\ error' = caughtMessage(result)
            /\ UNCHANGED <<editedImage, editHistory, editSources>>
    /\ isEditingImage' = FALSE
    /\ calls' = calls \ {c}
    /\ UNCHANGED apiRequests

\* generateContent settles for an edit
EditSettled(c, outcome) ==
    /\ c \in calls /\ c.flow = "edit" /\ c.phase = "calling"
    /\ editCompletes(c, editImageResult(outcome))
    /\ lastEvent' = Event("editSettled", outcome)
    /\ UNCHANGED <<activeTab, formVars, previewReads, generatedCartoon,
                   isGeneratingCartoon, cartoonHistory, pendingShares, started, inputs>>

Next ==
    \/ \E tab \in Tabs : SetActiveTab(tab)
    \/ \E text \in Descriptions : SetCartoonPrompt(text)
    \/ \E type \in StyleTypes : handleStyleTypeChange(type)
    \/ \E value \in magazines \cup {Other} : handleMagazineChange(value)
    \/ \E value \in cartoonists \cup {Other} : handleCartoonistChange(value)
    \/ \E text \in CustomStyles : SetCustomStyle(text)
    \/ \E text \in Signatures : SetSignature(text)
    \/ \E option \in ColorOptions : SetColorOption(option)
    \/ \E file \in CharacterFiles : handleCharacterImageUpload(file)
    \/ \E file \in CharacterFiles : CharacterPreviewLoaded(file)
    \/ handleRemoveCharacterImage
    \/ \E file \in OriginalFiles : handleImageUpload(file)
    \/ \E text \in EditPrompts : SetEditPrompt(text)
    \/ \E i \in 1..MaxRequests : SelectCartoon(i)
    \/ \E i \in 1..MaxRequests : SelectEdit(i)
    \/ handleShare
    \/ \E outcome \in ShareOutcomes : ShareSettled(outcome)
    \/ GenerateClick
    \/ \E c \in calls : \E result \in ReadResults(c.image) : GenerateFileRead(c, result)
    \/ \E c \in calls, outcome \in ApiOutcomes : GenerateSettled(c, outcome)
    \/ EditClick
    \/ \E c \in calls : \E result \in ReadResults(c.image) : EditFileRead(c, result)
    \/ \E c \in calls, outcome \in ApiOutcomes : EditSettled(c, outcome)

Spec == Init /\ [][Next]_vars

\* A FileReader always fires loadend, so fileToGenerativePart's promise
\* always settles; that generateContent settles is what the claims about
\* completion assume (no timeout is enforced locally).
FileReadStep ==
    \E c \in calls : \E result \in ReadResults(c.image) :
        GenerateFileRead(c, result) \/ EditFileRead(c, result)
ApiSettleStep ==
    \E c \in calls, outcome \in ApiOutcomes :
        GenerateSettled(c, outcome) \/ EditSettled(c, outcome)
FairSpec == Spec /\ WF_vars(FileReadStep) /\ WF_vars(ApiSettleStep)

(***************************************************************************)
(* The composition of the generation request over every form the user can  *)
(* have filled in: the form starts in any state the form events can lead   *)
(* to (a custom style is kept only while 'Other...' is selected in the     *)
(* current category), and only the generation flow runs.                   *)
(***************************************************************************)
PromptInit ==
    /\ activeTab = "cartoon"
    /\ cartoonPrompt \in PromptDescriptions
    /\ styleType \in StyleTypes
    /\ magazineStyle \in magazines \cup {Other}
    /\ cartoonistStyle \in cartoonists \cup {Other}
    /\ customStyle \in CustomStyles
    /\ (customStyle # <<>> => isCustomStyle)
    /\ signature \in Signatures
    /\ colorOption \in ColorOptions
    /\ characterImage \in CharacterFiles \cup {NoFile}
    /\ characterImagePreview = characterImage
    /\ generatedCartoon = <<>>
    /\ isGeneratingCartoon = FALSE
    /\ cartoonHistory = <<>>
    /\ originalImage = NoFile
    /\ editPrompt = DefaultEditPrompt
    /\ editedImage = <<>>
    /\ isEditingImage = FALSE
    /\ editHistory = <<>>
    /\ editSources = [shown |-> NoFile, history |-> <<>>]
    /\ error = NoError
    /\ calls = {}
    /\ previewReads = {}
    /\ pendingShares = 0
    /\ apiRequests = 0
    /\ started = 0
    /\ inputs = 0
    /\ lastEvent = Event("init", NoOutcome)

PromptNext ==
    \/ GenerateClick
    \/ \E c \in calls : \E result \in ReadResults(c.image) : GenerateFileRead(c, result)
    \/ \E c \in calls, outcome \in ApiOutcomes : GenerateSettled(c, outcome)

PromptSpec == PromptInit /\ [][PromptNext]_vars

(***************************************************************************)
(* Claims.                                                                 *)
(***************************************************************************)
GenerateCalls == {c \in calls : c.flow = "generate"}
EditCalls == {c \in calls : c.flow = "edit"}
\* the calls whose request has been handed to generateContent
Requests == {c \in calls : c.phase = "calling"}
IsImagePart(p) == HasInlineData(p) /\ ~IsTextPart(p)
IsOnlyText(p) == IsTextPart(p) /\ ~HasInlineData(p)
InlineIndices(parts) == {i \in 1..Len(parts) : HasInlineData(parts[i])}
FirstInline(parts) ==
    parts[CHOOSE i \in InlineIndices(parts) : \A j \in InlineIndices(parts) : i <= j]
SettledKinds == {"generateSettled", "editSettled"}

\* C1: every request handed to the image API carries [imagePart, textPart]
\* for an edit, [imagePart, textPart] for a generation with a character
\* image and [textPart] for one without; never more than one text part or
\* more than one image part, and never an image part after the text part.
C1_PartOrder ==
    \A c \in Requests :
        /\ (c.flow = "edit" \/ c.image # NoFile) =>
               /\ Len(c.parts) = 2
               /\ IsImagePart(c.parts[1])
               /\ c.parts[1].inlineData[1].mimeType = FileType(c.image)
               /\ IsOnlyText(c.parts[2])
               /\ c.parts[2].text[1] = c.prompt
        /\ (c.flow = "generate" /\ c.image = NoFile) =>
               /\ Len(c.parts) = 1
               /\ IsOnlyText(c.parts[1])
               /\ c.parts[1].text[1] = c.prompt
        /\ Cardinality({i \in 1..Len(c.parts) : IsTextPart(c.parts[i])}) = 1
        /\ Cardinality({i \in 1..Len(c.parts) : HasInlineData(c.parts[i])}) <= 1
        /\ \A i, j \in 1..Len(c.parts) :
               (IsTextPart(c.parts[i]) /\ HasInlineData(c.parts[j])) => j < i

\* a generation request with a character image is with the API while an
\* edit request is too
C1_Witness ==
    /\ \E c \in Requests : c.flow = "generate" /\ c.image # NoFile
    /\ \E c \in Requests : c.flow = "edit"

\* C2: when the first candidate of the response holds a part with inline
\* data, generateCartoon and editImage return the data URL built from the
\* first such part in list order (the handler displays what they return and
\* puts it at the head of the history); {image/png, QUJD} gives exactly
\* data:image/png;base64,QUJD.
C2_FirstInlineWins ==
    (/\ lastEvent.kind \in SettledKinds
     /\ lastEvent.outcome.type = "response"
     /\ InlineIndices(lastEvent.outcome.parts) # {}) =>
        LET first == FirstInline(lastEvent.outcome.parts).inlineData[1]
            url == <<"data:">> \o first.mimeType \o <<";base64", ",">> \o first.data
            shown == IF lastEvent.kind = "generateSettled"
                     THEN generatedCartoon ELSE editedImage
            history == IF lastEvent.kind = "generateSettled"
                       THEN cartoonHistory ELSE editHistory
        IN  /\ shown = url
            /\ history # <<>> /\ Head(history) = url
            /\ (first.mimeType = <<"image/png">> /\ first.data = <<"QUJD">>) =>
                   shown = <<"data:", "image/png", ";base64", ",", "QUJD">>

\* a generation settled with [text, png, jpeg]: the text was skipped, the
\* jpeg ignored
C2_Witness ==
    /\ lastEvent.kind = "generateSettled"
    /\ lastEvent.outcome.parts = <<TextOnly, PngPart, JpegPart>>
    /\ generatedCartoon = <<"data:", "image/png", ";base64", ",", "QUJD">>

\* C3: when no part of the scanned candidate carries inline data the call
\* fails instead of returning a value, a generation with 'No image
\* generated.' and an edit with the different 'No image generated from
\* edit.' (the handler's catch shows the message thrown).
C3_NoImageMessages ==
    (/\ lastEvent.kind \in SettledKinds
     /\ lastEvent.outcome.type = "response"
     /\ InlineIndices(lastEvent.outcome.parts) = {}) =>
        /\ lastEvent.kind = "generateSettled" => error = "No image generated."
        /\ lastEvent.kind = "editSettled" => error = "No image generated from edit."
        /\ error \in {"No image generated.", "No image generated from edit."}

\* an edit settled with a text-only response
C3_Witness ==
    /\ lastEvent.kind = "editSettled"
    /\ lastEvent.outcome.type = "response"
    /\ lastEvent.outcome.parts = <<TextOnly>>
    /\ error = "No image generated from edit."

\* the style name as the claim resolves it: the custom text when the
\* selection of the current category is 'Other...', else that selection
C4_StyleName ==
    IF styleType = "magazine"
    THEN (IF magazineStyle = <<"Other...">> THEN customStyle ELSE magazineStyle)
    ELSE (IF cartoonistStyle = <<"Other...">> THEN customStyle ELSE cartoonistStyle)

\* C4: a click on Generate Cartoon while the description or the resolved
\* style name is empty sets the validation message and starts nothing: the
\* in-flight flag stays false, no call is created, no request is made.
C4_ValidationBeforeNetwork ==
    [][(/\ lastEvent'.kind = "generateClick"
        /\ (cartoonPrompt = <<>> \/ C4_StyleName = <<>>)) =>
           /\ error' = "Please provide a description and a style."
           /\ isGeneratingCartoon' = FALSE
           /\ calls' = calls
           /\ apiRequests' = apiRequests
           /\ started' = started]_vars

\* Generate Cartoon was clicked with 'Other...' selected and no custom style
C4_Witness ==
    /\ lastEvent.kind = "generateClick"
    /\ cartoonPrompt # <<>>
    /\ magazineStyle = <<"Other...">> /\ customStyle = <<>>
    /\ error = "Please provide a description and a style."
    /\ started = 0

\* C5: a click on Apply Edit while no image is uploaded or the instruction
\* is empty sets the validation message and starts nothing; the edit flag,
\* the edited image and the edit history stay as they are.
C5_EditValidation ==
    [][(/\ lastEvent'.kind = "editClick"
        /\ (originalImage = NoFile \/ editPrompt = <<>>)) =>
           /\ error' = "Please upload an image and provide an edit instruction."
           /\ calls' = calls
           /\ apiRequests' = apiRequests
           /\ started' = started
           /\ UNCHANGED <<isEditingImage, editedImage, editHistory>>]_vars

\* Apply Edit was clicked with an image uploaded and an empty instruction
C5_Witness ==
    /\ lastEvent.kind = "editClick"
    /\ originalImage # NoFile
    /\ editPrompt = <<>>
    /\ error = "Please upload an image and provide an edit instruction."

\* an outcome with which a service call fails: anything but a response
\* that holds a part with inline data
C6_Fails(outcome) ==
    outcome.type # "response" \/ InlineIndices(outcome.parts) = {}

\* the step is the settlement, with a failure, of call c
C6_FailedSettle(c) ==
    /\ c \in calls /\ c \notin calls'
    /\ lastEvent'.kind = (IF c.flow = "generate" THEN "generateSettled" ELSE "editSettled")
    /\ C6_Fails(lastEvent'.outcome)

\* C6 as the spec states it: when an action ends in an error, the displayed
\* result and the history are what they were before it was triggered.
C6_PriorResultsUntouched ==
    [][/\ \A c \in GenerateCalls : C6_FailedSettle(c) =>
              /\ generatedCartoon' = c.before.result
              /\ cartoonHistory' = c.before.history
       /\ \A c \in EditCalls : C6_FailedSettle(c) =>
              /\ editedImage' = c.before.result
              /\ editHistory' = c.before.history]_vars

\* C6, amended: the step that reports an error (a failed validation, a
\* failed call) changes neither the displayed result nor the history of its
\* flow, and a failed generation leaves the cartoon history as it was
\* before the trigger; the one change a failing action makes is at its
\* trigger, which once validation has passed clears the displayed result
\* and leaves the history alone.
C6_ErrorsKeepHistory ==
    [][/\ \A c \in GenerateCalls : C6_FailedSettle(c) =>
              /\ UNCHANGED <<generatedCartoon, cartoonHistory>>
              /\ cartoonHistory' = c.before.history
       /\ \A c \in EditCalls : C6_FailedSettle(c) =>
              UNCHANGED <<editedImage, editHistory>>
       /\ lastEvent'.kind = "generateClick" =>
              /\ cartoonHistory' = cartoonHistory
              /\ generatedCartoon' =
                     (IF cartoonPrompt = <<>> \/ C4_StyleName = <<>>
                      THEN generatedCartoon ELSE <<>>)
       /\ lastEvent'.kind = "editClick" =>
              /\ editHistory' = editHistory
              /\ editedImage' =
                     (IF originalImage = NoFile \/ editPrompt = <<>>
                      THEN editedImage ELSE <<>>)]_vars

\* a second generation failed after a first succeeded: the history still
\* holds the first cartoon, the display was cleared by the trigger
C6_Witness ==
    /\ lastEvent.kind = "generateSettled"
    /\ C6_Fails(lastEvent.outcome)
    /\ Len(cartoonHistory) = 1
    /\ generatedCartoon = <<>>
    /\ error # NoError

\* C7: a flag that was set is reset: once the file is read and
\* generateContent settles, with an image, without one or with a failure,
\* isGeneratingCartoon / isEditingImage is false again.
C7_FlagEventuallyReset ==
    /\ isGeneratingCartoon ~> ~isGeneratingCartoon
    /\ isEditingImage ~> ~isEditingImage

\* a generation was rejected with a non-Error value and the flag is down
C7_Witness ==
    /\ lastEvent.kind = "generateSettled"
    /\ lastEvent.outcome.type = "rejectedOther"
    /\ ~isGeneratingCartoon
    /\ error = "An unknown error occurred."

\* C8: at most one generation and at most one edit is in flight, and while
\* one is, its flag is up, which disables its button.
C8_OneInFlightPerType ==
    /\ Cardinality(GenerateCalls) <= 1
    /\ Cardinality(EditCalls) <= 1
    /\ GenerateCalls # {} => isGeneratingCartoon
    /\ EditCalls # {} => isEditingImage
    /\ Cardinality({c \in Requests : c.flow = "generate"}) <= 1
    /\ Cardinality({c \in Requests : c.flow = "edit"}) <= 1

\* a generation is in flight, the user is on the cartoon tab with a valid
\* form, and another action could still be started
C8_Witness ==
    /\ \E c \in Requests : c.flow = "generate"
    /\ activeTab = "cartoon"
    /\ cartoonPrompt # <<>> /\ C4_StyleName # <<>>
    /\ started < MaxRequests

\* C9: an action that passed validation makes exactly one API request, and
\* a failure makes none: the requests made are the actions started less
\* those still reading their file, whatever has failed so far, and a
\* settled action is no longer in flight.
C9_OneRequestPerAction ==
    /\ apiRequests + Cardinality({c \in calls : c.phase = "reading"}) = started
    /\ lastEvent.kind = "generateSettled" => GenerateCalls = {}
    /\ lastEvent.kind = "editSettled" => EditCalls = {}

\* a generation failed on the transport; one request was made for it and
\* nothing is in flight
C9_Witness ==
    /\ lastEvent.kind = "generateSettled"
    /\ lastEvent.outcome.type = "rejectedError"
    /\ started = 1 /\ apiRequests = 1
    /\ calls = {}

\* the generation that the click just started, if it started one
C10_Started ==
    IF lastEvent.kind = "generateClick"
    THEN {c \in GenerateCalls : c.id = started}
    ELSE {}

\* the tokens of the texts the user supplied to that generation (the click
\* leaves the form as it was)
C10_UserTokens == Range(cartoonPrompt) \cup Range(C4_StyleName) \cup Range(signature)

\* C10 as the spec states it: whatever the inputs, the composed prompt holds
\* exactly one of the two colour clauses, the one of the colour option.
C10_ExactlyOneColorClause ==
    \A c \in C10_Started :
        /\ Contains(c.prompt, <<" The cartoon should be in", " black and white", ".">>)
               <=> colorOption = "black_and_white"
        /\ Contains(c.prompt, <<" The cartoon should be in", " full color", ".">>)
               <=> colorOption = "color"

\* C10, amended: the composed prompt always holds the clause of the colour
\* option, and it holds the other clause only when a text the user supplied
\* (description, style name, signature) carries that clause's wording
\* ("black and white", "full color"); with no such wording in the user's
\* texts exactly one clause appears.
C10_SelectedColorClause ==
    \A c \in C10_Started :
        /\ colorOption = "black_and_white" =>
               /\ Contains(c.prompt, <<" The cartoon should be in", " black and white", ".">>)
               /\ " full color" \notin C10_UserTokens =>
                      ~Contains(c.prompt, <<" The cartoon should be in", " full color", ".">>)
        /\ colorOption = "color" =>
               /\ Contains(c.prompt, <<" The cartoon should be in", " full color", ".">>)
               /\ " black and white" \notin C10_UserTokens =>
                      ~Contains(c.prompt, <<" The cartoon should be in", " black and white", ".">>)

\* a black-and-white generation was started from a description without
\* colour wording
C10_Witness ==
    /\ C10_Started # {}
    /\ colorOption = "black_and_white"
    /\ cartoonPrompt = <<"A cat trying to use a laptop">>
    /\ \A c \in C10_Started :
           /\ Contains(c.prompt, BlackAndWhiteClause)
           /\ ~Contains(c.prompt, FullColorClause)

\* s ends with t
C11_EndsWith(s, t) ==
    Len(t) <= Len(s) /\ SubSeq(s, Len(s) - Len(t) + 1, Len(s)) = t

\* the placement-instruction clause for the signature text sig
C11_PlacementClause(sig) ==
    <<" Subtly place the signature '">> \o sig
        \o <<"' in one of the bottom corners of the image", ".">>

\* the closing clause
C11_Closing ==
    <<" The cartoon should be humorous and thought-provoking, capturing the essence of the specified style", ".">>

\* p holds a placement-instruction clause, whatever text it quotes
C11_HasPlacementClause(p) ==
    \E i \in 1..Len(p), j \in 1..Len(p) :
        /\ i < j /\ j < Len(p)
        /\ p[i] = " Subtly place the signature '"
        /\ p[j] = "' in one of the bottom corners of the image"
        /\ p[j + 1] = "."

\* C11 as the spec states it: a non-empty signature puts the placement
\* clause with that exact text after the closing clause, and with an empty
\* signature the prompt holds no placement clause at all.
C11_SignatureClauseIffSignature ==
    \A c \in C10_Started :
        /\ signature # <<>> =>
               C11_EndsWith(c.prompt, C11_Closing \o C11_PlacementClause(signature))
        /\ signature = <<>> => ~C11_HasPlacementClause(c.prompt)

\* C11, amended: a non-empty signature puts the placement clause with that
\* exact text at the end of the prompt, right after the closing clause; with
\* an empty signature nothing follows the closing clause, and the prompt
\* holds a placement clause only when a text the user supplied (description,
\* style name) carries the clause's wording.
C11_SignatureClauseAppended ==
    \A c \in C10_Started :
        /\ signature # <<>> =>
               C11_EndsWith(c.prompt, C11_Closing \o C11_PlacementClause(signature))
        /\ signature = <<>> =>
               /\ C11_EndsWith(c.prompt, C11_Closing)
               /\ " Subtly place the signature '" \notin C10_UserTokens =>
                      ~C11_HasPlacementClause(c.prompt)

\* a generation was started with the signature 'AI Artist' from a
\* description without signature wording
C11_Witness ==
    /\ C10_Started # {}
    /\ signature = <<"AI Artist">>
    /\ cartoonPrompt = <<"A cat trying to use a laptop">>
    /\ \A c \in C10_Started :
           Contains(c.prompt, <<" Subtly place the signature '", "AI Artist",
                                "' in one of the bottom corners of the image", ".">>)

\* C12: whatever the style category, a generation started with a non-empty
\* style name (the name the form resolves to: the custom text under
\* 'Other...', else the selection of the current category) has a prompt that
\* holds 'in the distinct artistic style of {styleName} magazine' when the
\* category is magazine and 'in the distinct artistic style of cartoonist
\* {styleName}' otherwise.
C12_StyleClauseVerbatim ==
    \A c \in C10_Started :
        C4_StyleName # <<>> =>
            /\ styleType = "magazine" =>
                   Contains(c.prompt, <<"in the distinct artistic style of ">>
                                          \o C4_StyleName \o <<" magazine">>)
            /\ styleType # "magazine" =>
                   Contains(c.prompt, <<"in the distinct artistic style of ", "cartoonist ">>
                                          \o C4_StyleName)

\* a generation was started in the cartoonist category with the custom
\* style 'Ukiyo-e' typed under 'Other...'
C12_Witness ==
    /\ C10_Started # {}
    /\ styleType = "cartoonist"
    /\ cartoonistStyle = <<"Other...">>
    /\ customStyle = <<"Ukiyo-e">>
    /\ \A c \in C10_Started :
           Contains(c.prompt, <<"in the distinct artistic style of ", "cartoonist ", "Ukiyo-e">>)

\* the text of the text part of a request
C13_Text(parts) ==
    (CHOOSE p \in Range(parts) : IsTextPart(p)).text[1]

\* the generation requests that are with the API
C13_Requests == {c \in Requests : c.flow = "generate"}

\* C13 as the spec states it: the text part of a generation request holds
\* the character-feature clause exactly when the request carries an image
\* part.
C13_CharacterClauseIffImage ==
    \A c \in C13_Requests :
        Contains(C13_Text(c.parts),
                 <<" Feature the character from the provided image in the scene", ".">>)
            <=> (\E i \in 1..Len(c.parts) : HasInlineData(c.parts[i]))

\* C13, amended: the composer appends the character-feature clause right
\* after the description's period if and only if a character image is
\* supplied, so a request that carries an image part always holds the clause
\* in its text part; a request without an image part has the colour clause
\* right after the description's period, and holds the character-feature
\* clause only when a text the user supplied carries the clause's wording.
C13_CharacterClauseAppended ==
    \A c \in C13_Requests :
        LET text == C13_Text(c.parts)
            scene == <<" The scene is: ">> \o cartoonPrompt \o <<".">>
            clause == <<" Feature the character from the provided image in the scene", ".">>
        IN  IF \E i \in 1..Len(c.parts) : HasInlineData(c.parts[i])
            THEN /\ characterImage # NoFile
                 /\ Contains(text, scene \o clause \o <<" The cartoon should be in">>)
            ELSE /\ characterImage = NoFile
                 /\ Contains(text, scene \o <<" The cartoon should be in">>)
                 /\ " Feature the character from the provided image in the scene"
                        \notin C10_UserTokens =>
                            ~Contains(text, clause)

\* a generation request with the character image is with the API, composed
\* from a description without character wording
C13_Witness ==
    /\ characterImage = "hero.png"
    /\ cartoonPrompt = <<"A cat trying to use a laptop">>
    /\ \E c \in C13_Requests :
           /\ Len(c.parts) = 2
           /\ HasInlineData(c.parts[1])
           /\ Contains(c.parts[2].text[1],
                       <<" Feature the character from the provided image in the scene", ".">>)

\* the steps of a generation action and of an edit action
C14_GenerateKinds == {"generateClick", "generateFileRead", "generateSettled"}
C14_EditKinds == {"editClick", "editFileRead", "editSettled"}

\* the messages that only a generation action displays, and those that only
\* an edit action displays
C14_GenerateMessages ==
    {"Please provide a description and a style.", "No image generated."}
C14_EditMessages ==
    {"Please upload an image and provide an edit instruction.",
     "No image generated from edit."}

\* no step of one flow changes the result, the history or the flag of the
\* other
C14_FlowStateSeparate ==
    /\ lastEvent'.kind \in C14_GenerateKinds =>
           UNCHANGED <<editedImage, editHistory, isEditingImage>>
    /\ lastEvent'.kind \in C14_EditKinds =>
           UNCHANGED <<generatedCartoon, cartoonHistory, isGeneratingCartoon>>

\* C14: generation and edit actions are mutually independent: no step of a
\* generation action changes the edit flow's state or the message an edit
\* action displayed, and no step of an edit action changes the generation
\* flow's state or the message a generation action displayed.
C14_MutuallyIndependent ==
    [][/\ C14_FlowStateSeparate
       /\ (lastEvent'.kind \in C14_GenerateKinds /\ error \in C14_EditMessages) =>
              error' = error
       /\ (lastEvent'.kind \in C14_EditKinds /\ error \in C14_GenerateMessages) =>
              error' = error]_vars

\* the part of C14 that the code keeps
C14_FlowStateIndependent == [][C14_FlowStateSeparate]_vars

\* C15: whatever happens around an upload, an edit in flight for the
\* previously uploaded image that completes after it included, the edited
\* image on display and every entry of the edit history is a result
\* produced from the image that is currently selected.
C15_ResultsFromCurrentImage ==
    /\ Len(editSources.history) = Len(editHistory)
    /\ editedImage # <<>> => editSources.shown = originalImage
    /\ \A i \in 1..Len(editHistory) : editSources.history[i] = originalImage

\* x is null or an entry of the list h
C16_NullOrIn(x, h) == x = <<>> \/ \E i \in 1..Len(h) : h[i] = x

\* the step is a settlement of the given kind that returned an image
C16_Succeeded(kind) ==
    /\ lastEvent'.kind = kind
    /\ lastEvent'.outcome.type = "response"
    /\ InlineIndices(lastEvent'.outcome.parts) # {}

====
